---------------------------- MODULE Spec2Model ----------------------------
(***************************************************************************)
(* A model of the command-line todo manager of src/main.rs: two JSON      *)
(* files under the home directory (.todos.json, .todo_categories.json),   *)
(* and short-lived processes that each run one command against them.      *)
(* Every file access (one load_json, one save_json) is one atomic step of  *)
(* the process that performs it; the computation between two file         *)
(* accesses is local to the process and belongs to the step that ends it.  *)
(***************************************************************************)
EXTENDS Integers, Sequences, FiniteSets, TLC

VARIABLES
    todosFile,   \* ~/.todos.json: [exists, data], data the JSON document
    catsFile,    \* ~/.todo_categories.json: [exists, data]
    pc,          \* pc[p]: where process p stands in main / cmd_*
    args,        \* args[p]: the command line of p's current invocation
    todos,       \* todos[p]: the local `todos` vector of cmd_add/done/remove
    cats,        \* cats[p]: the local `cats` vector of cmd_category_add
    category,    \* category[p]: the Option<Category> main hands to cmd_add
    exitCode,    \* exitCode[p]: exit status of p's last invocation, -1 while running
    stdout,      \* stdout[p]: the lines p printed to standard output
    io,          \* io[p]: the file accesses of p's current invocation, in order
    assigned,    \* history: the identifiers add has assigned so far, and whether a remove succeeded
    stale,       \* history: stale[p] is TRUE when another process saved the todos after p loaded them
    rt           \* the save/load harness: an input collection and what was loaded back

vars == <<todosFile, catsFile, pc, args, todos, cats, category, exitCode,
          stdout, io, assigned, stale, rt>>

-----------------------------------------------------------------------------
(* Bounds of the model. *)

\* add is not started once the stored maximum identifier has reached MaxId
MaxId == 3
\* the save/load harness takes collections of at most MaxLen records
MaxLen == 3

Procs == {1, 2}

\* the todo texts given on the command line
Texts == {"buy milk"}
\* the category names given on the command line
Names == {"WORK", "Errands", "errands"}
\* the category names given to the category commands run on their own
CatNames == {"WORK", "Health", "Errands", "errands", "ERRANDS", "Misc"}

-----------------------------------------------------------------------------
(* Strings *)

\* str::to_lowercase on the strings of the model
to_lowercase(s) ==
    CASE s = "WORK" -> "work"
      [] s = "Work" -> "work"
      [] s = "Health" -> "health"
      [] s = "Errands" -> "errands"
      [] s = "ERRANDS" -> "errands"
      [] s = "Misc" -> "misc"
      [] OTHER -> s

BUILTIN_CATEGORIES == <<"work", "personal", "shopping", "health">>

Range(s) == {s[i] : i \in 1..Len(s)}

-----------------------------------------------------------------------------
(* Category, Option and Result values *)

Work == [tag |-> "Work"]
Personal == [tag |-> "Personal"]
Shopping == [tag |-> "Shopping"]
Health == [tag |-> "Health"]
Custom(name) == [tag |-> "Custom", name |-> name]

None == [some |-> FALSE]
Some(v) == [some |-> TRUE, val |-> v]

Ok(v) == [ok |-> TRUE, val |-> v]
Err(e) == [ok |-> FALSE, err |-> e]

\* impl fmt::Display for Category
Display(c) ==
    CASE c.tag = "Work" -> "work"
      [] c.tag = "Personal" -> "personal"
      [] c.tag = "Shopping" -> "shopping"
      [] c.tag = "Health" -> "health"
      [] c.tag = "Custom" -> c.name

\* the first index of a custom category that matches lower, 0 when none does
FindCustom(lower, custom_categories) ==
    LET hits == {i \in 1..Len(custom_categories) :
                    to_lowercase(custom_categories[i]) = lower}
    IN  IF hits = {} THEN 0 ELSE CHOOSE i \in hits : \A j \in hits : i <= j

\* parse_category returning the custom name as the user typed it
parse_category_input_casing(name, custom_categories) ==
    LET lower == to_lowercase(name)
        i == FindCustom(lower, custom_categories)
    IN  CASE lower = "work" -> Ok(Work)
          [] lower = "personal" -> Ok(Personal)
          [] lower = "shopping" -> Ok(Shopping)
          [] lower = "health" -> Ok(Health)
          [] OTHER -> IF i # 0 THEN Ok(Custom(name))
                               ELSE Err(<<"Unknown category", name>>)

parse_category(name, custom_categories) ==
    LET lower == to_lowercase(name)
        i == FindCustom(lower, custom_categories)
    IN  CASE lower = "work" -> Ok(Work)
          [] lower = "personal" -> Ok(Personal)
          [] lower = "shopping" -> Ok(Shopping)
          [] lower = "health" -> Ok(Health)
          [] OTHER -> IF i # 0 THEN Ok(Custom(custom_categories[i]))
                               ELSE Err(<<"Unknown category", name>>)

-----------------------------------------------------------------------------
(* JSON documents, and serde's derived Serialize / Deserialize *)

JStr(s) == [j |-> "string", s |-> s]
JNum(n) == [j |-> "number", n |-> n]
JBool(b) == [j |-> "bool", b |-> b]
JArr(a) == [j |-> "array", a |-> a]
JNull == [j |-> "null"]
\* f is a record: member name |-> JSON value
JObj(f) == [j |-> "object", f |-> f]

\* the unit variants, renamed by rename_all = "lowercase"
UnitVariant(s) ==
    CASE s = "work" -> Ok(Work)
      [] s = "personal" -> Ok(Personal)
      [] s = "shopping" -> Ok(Shopping)
      [] s = "health" -> Ok(Health)
      [] OTHER -> Err("unknown variant")

\* Category serialized untagged: a custom name as a plain string
SerializeCategory_plain(c) == JStr(Display(c))

\* Category serialized without rename_all: the variant names as declared
SerializeCategory_NoRename(c) ==
    IF c.tag = "Custom" THEN JObj([Custom |-> JStr(c.name)])
                        ELSE JStr(c.tag)

\* derive(Serialize) for Category: an externally tagged enum; a unit variant is
\* its name as a string, the newtype variant Custom an object {"custom": name}
SerializeCategory(c) ==
    IF c.tag = "Custom" THEN JObj([custom |-> JStr(c.name)])
                        ELSE JStr(Display(c))

\* derive(Deserialize) for Category: a string names a unit variant; an object
\* has one member, named after the variant, holding its content
DeserializeCategory(v) ==
    CASE v.j = "string" -> UnitVariant(v.s)
      [] v.j = "object" ->
            IF DOMAIN v.f = {"custom"}
            THEN IF v.f.custom.j = "string" THEN Ok(Custom(v.f.custom.s))
                                            ELSE Err("invalid type")
            ELSE IF \E k \in Range(BUILTIN_CATEGORIES) : DOMAIN v.f = {k} /\ v.f[k] = JNull
            THEN UnitVariant(CHOOSE k \in Range(BUILTIN_CATEGORIES) : DOMAIN v.f = {k})
            ELSE Err("invalid value")
      [] OTHER -> Err("invalid type")

\* derive(Serialize) for Todo; category is skipped when it is None
SerializeTodo(t) ==
    IF t.category.some
    THEN JObj([id |-> JNum(t.id), text |-> JStr(t.text), done |-> JBool(t.done),
               category |-> SerializeCategory(t.category.val)])
    ELSE JObj([id |-> JNum(t.id), text |-> JStr(t.text), done |-> JBool(t.done)])

\* derive(Deserialize) for Todo: id, text and done are required, members of
\* other names are ignored, category is None when it is missing or null
DeserializeTodo(v) ==
    IF v.j # "object" THEN Err("invalid type")
    ELSE IF ~({"id", "text", "done"} \subseteq DOMAIN v.f) THEN Err("missing field")
    ELSE IF v.f.id.j # "number" \/ v.f.text.j # "string" \/ v.f.done.j # "bool"
         THEN Err("invalid type")
    ELSE IF v.f.id.n < 0 THEN Err("invalid value")
    ELSE LET present == "category" \in DOMAIN v.f /\ v.f.category # JNull
             c == IF present THEN DeserializeCategory(v.f.category) ELSE Ok(None)
         IN  IF ~c.ok THEN c
             ELSE Ok([id |-> v.f.id.n, text |-> v.f.text.s, done |-> v.f.done.b,
                      category |-> IF present THEN Some(c.val) ELSE None])

\* Vec<Todo> to and from a JSON array
SerializeTodos(ts) == JArr([i \in 1..Len(ts) |-> SerializeTodo(ts[i])])

DeserializeTodos(v) ==
    IF v.j # "array" THEN Err("invalid type")
    ELSE IF \E i \in 1..Len(v.a) : ~DeserializeTodo(v.a[i]).ok THEN Err("invalid element")
    ELSE Ok([i \in 1..Len(v.a) |-> DeserializeTodo(v.a[i]).val])

\* Vec<String> to and from a JSON array
SerializeStrings(ss) == JArr([i \in 1..Len(ss) |-> JStr(ss[i])])

DeserializeStrings(v) ==
    IF v.j # "array" THEN Err("invalid type")
    ELSE IF \E i \in 1..Len(v.a) : v.a[i].j # "string" THEN Err("invalid element")
    ELSE Ok([i \in 1..Len(v.a) |-> v.a[i].s])

-----------------------------------------------------------------------------
(* Persistence *)

NoFile == [exists |-> FALSE, data |-> JArr(<<>>)]
File(data) == [exists |-> TRUE, data |-> data]

\* load_json::<Vec<Todo>>: the default when the path does not exist, else the
\* parsed document; an Err stands for the exit(1) of a failed parse
load_todos(file) ==
    IF ~file.exists THEN Ok(<<>>) ELSE DeserializeTodos(file.data)

\* save_json of a Vec<Todo>: the file it leaves
save_todos(ts) == File(SerializeTodos(ts))

load_custom_categories(file) ==
    IF ~file.exists THEN Ok(<<>>) ELSE DeserializeStrings(file.data)

save_custom_categories(cs) == File(SerializeStrings(cs))

-----------------------------------------------------------------------------
(* Todo *)

Todo(id, text, done, cat) == [id |-> id, text |-> text, done |-> done, category |-> cat]

Max(S) == CHOOSE m \in S : \A n \in S : n <= m

\* next_id as the number of records + 1
next_id_len(ts) == Len(ts) + 1

\* next_id as the smallest identifier no record carries
next_id_gap(ts) ==
    CHOOSE n \in 1..(Len(ts) + 1) :
        /\ n \notin {ts[i].id : i \in 1..Len(ts)}
        /\ \A m \in 1..(n - 1) : m \in {ts[i].id : i \in 1..Len(ts)}

\* todos.iter().map(|t| t.id).max().unwrap_or(0) + 1. The identifiers of the
\* model stay below MaxId + Cardinality(Procs), far from u32::MAX, where the
\* addition would overflow.
next_id(ts) ==
    (IF ts = <<>> THEN 0 ELSE Max({ts[i].id : i \in 1..Len(ts)})) + 1

\* todos.iter_mut().find(|t| t.id == id): the first index with that id, 0 when none
FindTodo(ts, id) ==
    LET hits == {i \in 1..Len(ts) : ts[i].id = id}
    IN  IF hits = {} THEN 0 ELSE CHOOSE i \in hits : \A j \in hits : i <= j

\* todos.retain(|t| t.id != id)
RECURSIVE Retain(_, _)
Retain(ts, id) ==
    IF ts = <<>> THEN <<>>
    ELSE IF Head(ts).id # id THEN <<Head(ts)>> \o Retain(Tail(ts), id)
    ELSE Retain(Tail(ts), id)

-----------------------------------------------------------------------------
(* Command lines and output *)

Cmd(cmd, cat, text, id) == [cmd |-> cmd, cat |-> cat, text |-> text, id |-> id]

NoArgs == Cmd("", None, "", 0)

\* the identifiers given to done and remove
Ids == 1..(MaxId + 1)

AddCommands == {Cmd("add", None, t, 0) : t \in Texts}
AddCatCommands == {Cmd("add", Some(n), t, 0) : n \in Names, t \in Texts}
DoneCommands == {Cmd("done", None, "", i) : i \in Ids}
RemoveCommands == {Cmd("remove", None, "", i) : i \in Ids}
CategoryAddCommands == {Cmd("category add", Some(n), "", 0) : n \in Names}
\* the command lines of the category specification
CategoryCommands ==
    {Cmd("category add", Some(n), "", 0) : n \in CatNames}
    \cup {Cmd("category list", None, "", 0)}

\* every command line the model issues; "help" stands for an unknown command
Commands ==
    AddCommands \cup AddCatCommands \cup DoneCommands \cup RemoveCommands
    \cup CategoryAddCommands
    \cup {Cmd("list", None, "", 0), Cmd("category list", None, "", 0),
          Cmd("help", None, "", 0)}

\* the command lines of the concurrent specification
ConcCommands == AddCommands \cup DoneCommands

\* one line of standard output: what it says, and the values it formats
Line(what, id, label, text) == [what |-> what, id |-> id, label |-> label, text |-> text]

\* the " [{c}]" of a category, empty for None
Label(cat) == IF cat.some THEN Display(cat.val) ELSE ""

\* the lines cmd_list prints
ListLines(ts) ==
    IF ts = <<>> THEN <<Line("No todos.", 0, "", "")>>
    ELSE [i \in 1..Len(ts) |->
            Line(IF ts[i].done THEN "[x]" ELSE "[ ]", ts[i].id,
                 Label(ts[i].category), ts[i].text)]

\* the lines cmd_category_list prints
CategoryLines(cs) ==
    <<Line("Built-in:", 0, "", "")>>
    \o [i \in 1..Len(BUILTIN_CATEGORIES) |-> Line("  ", 0, BUILTIN_CATEGORIES[i], "")]
    \o (IF cs = <<>> THEN <<>>
        ELSE <<Line("Custom:", 0, "", "")>>
             \o [i \in 1..Len(cs) |-> Line("  ", 0, cs[i], "")])

-----------------------------------------------------------------------------
(* Processes *)

Stopped(p) == pc[p] \in {"idle", "exited"}

\* the states between a process's load of the todos and its save of them
HoldsTodos(p) == pc[p] \in {"cmd_add_save", "cmd_done_finish", "cmd_remove_finish"}

\* nothing loaded yet
NotLoaded == Err("not loaded")

\* the harness at rest
RtIdle == [kind |-> "none", todos |-> <<>>, cats |-> <<>>,
           gotTodos |-> NotLoaded, gotCats |-> NotLoaded]

\* a fresh home directory and no process running
Boot ==
    /\ todosFile = NoFile
    /\ catsFile = NoFile
    /\ pc = [p \in Procs |-> "idle"]
    /\ args = [p \in Procs |-> NoArgs]
    /\ todos = [p \in Procs |-> <<>>]
    /\ cats = [p \in Procs |-> <<>>]
    /\ category = [p \in Procs |-> None]
    /\ exitCode = [p \in Procs |-> 0]
    /\ stdout = [p \in Procs |-> <<>>]
    /\ io = [p \in Procs |-> <<>>]
    /\ assigned = [ids |-> {}, removed |-> FALSE]
    /\ stale = [p \in Procs |-> FALSE]

Init == Boot /\ rt = RtIdle

\* process::exit(code), or the return from main with code 0: the process's
\* memory is gone, its exit status and its output remain
Exit(p, code, out) ==
    /\ pc' = [pc EXCEPT ![p] = "exited"]
    /\ exitCode' = [exitCode EXCEPT ![p] = code]
    /\ stdout' = [stdout EXCEPT ![p] = out]
    /\ args' = [args EXCEPT ![p] = NoArgs]
    /\ todos' = [todos EXCEPT ![p] = <<>>]
    /\ cats' = [cats EXCEPT ![p] = <<>>]
    /\ category' = [category EXCEPT ![p] = None]

\* process p goes on to pc value to, with its locals as given
Goto(p, to, ts, cs, cat) ==
    /\ pc' = [pc EXCEPT ![p] = to]
    /\ todos' = [todos EXCEPT ![p] = ts]
    /\ cats' = [cats EXCEPT ![p] = cs]
    /\ category' = [category EXCEPT ![p] = cat]
    /\ UNCHANGED <<args, exitCode, stdout>>

\* the saves of the todos by p make every other holder of the todos stale
SavedTodos(p) ==
    stale' = [q \in Procs |-> IF q # p /\ HoldsTodos(q) THEN TRUE ELSE stale[q]]

Did(p, what, which) == io' = [io EXCEPT ![p] = Append(@, <<what, which>>)]

\* main: the dispatch on args[1] (and args[2]) of a new invocation
Start(p, a) ==
    /\ Stopped(p)
    /\ a.cmd = "add" => load_todos(todosFile).ok /\ next_id(load_todos(todosFile).val) <= MaxId
    /\ args' = [args EXCEPT ![p] = IF a.cmd = "help" THEN NoArgs ELSE a]
    /\ io' = [io EXCEPT ![p] = <<>>]
    /\ stale' = [stale EXCEPT ![p] = FALSE]
    /\ stdout' = [stdout EXCEPT ![p] = <<>>]
    /\ todos' = [todos EXCEPT ![p] = <<>>]
    /\ cats' = [cats EXCEPT ![p] = <<>>]
    /\ category' = [category EXCEPT ![p] = None]
    /\ IF a.cmd = "help"
       THEN /\ pc' = [pc EXCEPT ![p] = "exited"]
            /\ exitCode' = [exitCode EXCEPT ![p] = 1]
       ELSE /\ pc' = [pc EXCEPT ![p] =
                        CASE a.cmd = "add" /\ a.cat.some -> "main_add_cat"
                          [] a.cmd = "add" /\ ~a.cat.some -> "cmd_add"
                          [] a.cmd = "list" -> "cmd_list"
                          [] a.cmd = "done" -> "cmd_done"
                          [] a.cmd = "remove" -> "cmd_remove"
                          [] a.cmd = "category add" -> "cmd_category_add"
                          [] a.cmd = "category list" -> "cmd_category_list"]
            /\ exitCode' = [exitCode EXCEPT ![p] = -1]
    /\ UNCHANGED <<todosFile, catsFile, assigned, rt>>


\* main, "add" with --cat: load the custom categories and parse the name
MainAddCat(p) ==
    /\ pc[p] = "main_add_cat"
    /\ Did(p, "load", "categories")
    /\ LET custom_cats == load_custom_categories(catsFile)
           parsed == IF custom_cats.ok
                     THEN parse_category(args[p].cat.val, custom_cats.val)
                     ELSE custom_cats
       IN  IF parsed.ok
           THEN Goto(p, "cmd_add", <<>>, <<>>, Some(parsed.val))
           ELSE Exit(p, 1, <<>>)
    /\ UNCHANGED <<todosFile, catsFile, assigned, stale, rt>>

\* cmd_add: let mut todos = load_todos()
CmdAddLoad(p) ==
    /\ pc[p] = "cmd_add"
    /\ Did(p, "load", "todos")
    /\ LET loaded == load_todos(todosFile)
       IN  IF loaded.ok
           THEN Goto(p, "cmd_add_save", loaded.val, <<>>, category[p])
           ELSE Exit(p, 1, <<>>)
    /\ UNCHANGED <<todosFile, catsFile, assigned, stale, rt>>

\* cmd_add inserting the new record at the front
CmdAddSave_Front(p) ==
    /\ pc[p] = "cmd_add_save"
    /\ LET id == next_id(todos[p])
           pushed == <<Todo(id, args[p].text, FALSE, category[p])>> \o todos[p]
       IN  /\ todosFile' = save_todos(pushed)
           /\ assigned' = [assigned EXCEPT !.ids = @ \cup {id}]
           /\ Exit(p, 0, <<Line("Added todo", id, Label(category[p]), args[p].text)>>)
    /\ Did(p, "save", "todos")
    /\ SavedTodos(p)
    /\ UNCHANGED <<catsFile, rt>>

\* cmd_add reading the file again before it pushes and saves
CmdAddSave_Merge(p) ==
    /\ pc[p] = "cmd_add_save"
    /\ LET current == load_todos(todosFile).val
           id == next_id(current)
           pushed == Append(current, Todo(id, args[p].text, FALSE, category[p]))
       IN  /\ todosFile' = save_todos(pushed)
           /\ assigned' = [assigned EXCEPT !.ids = @ \cup {id}]
           /\ Exit(p, 0, <<Line("Added todo", id, Label(category[p]), args[p].text)>>)
    /\ Did(p, "save", "todos")
    /\ SavedTodos(p)
    /\ UNCHANGED <<catsFile, rt>>

\* cmd_add: next_id, push, save_todos, println
CmdAddSave(p) ==
    /\ pc[p] = "cmd_add_save"
    /\ LET id == next_id(todos[p])
           pushed == Append(todos[p], Todo(id, args[p].text, FALSE, category[p]))
       IN  /\ todosFile' = save_todos(pushed)
           /\ assigned' = [assigned EXCEPT !.ids = @ \cup {id}]
           /\ Exit(p, 0, <<Line("Added todo", id, Label(category[p]), args[p].text)>>)
    /\ Did(p, "save", "todos")
    /\ SavedTodos(p)
    /\ UNCHANGED <<catsFile, rt>>

\* cmd_list writing back what it loaded
CmdList_Saves(p) ==
    /\ pc[p] = "cmd_list"
    /\ LET loaded == load_todos(todosFile)
       IN  IF loaded.ok
           THEN /\ todosFile' = save_todos(loaded.val)
                /\ io' = [io EXCEPT ![p] = @ \o <<(<<"load", "todos">>), (<<"save", "todos">>)>>]
                /\ SavedTodos(p)
                /\ Exit(p, 0, ListLines(loaded.val))
           ELSE /\ Did(p, "load", "todos")
                /\ Exit(p, 1, <<>>)
                /\ UNCHANGED <<todosFile, stale>>
    /\ UNCHANGED <<catsFile, assigned, rt>>

\* cmd_list
CmdList(p) ==
    /\ pc[p] = "cmd_list"
    /\ Did(p, "load", "todos")
    /\ LET loaded == load_todos(todosFile)
       IN  IF loaded.ok THEN Exit(p, 0, ListLines(loaded.val)) ELSE Exit(p, 1, <<>>)
    /\ UNCHANGED <<todosFile, catsFile, assigned, stale, rt>>

\* cmd_done: let mut todos = load_todos()
CmdDoneLoad(p) ==
    /\ pc[p] = "cmd_done"
    /\ Did(p, "load", "todos")
    /\ LET loaded == load_todos(todosFile)
       IN  IF loaded.ok
           THEN Goto(p, "cmd_done_finish", loaded.val, <<>>, None)
           ELSE Exit(p, 1, <<>>)
    /\ UNCHANGED <<todosFile, catsFile, assigned, stale, rt>>

\* cmd_done: find the record; set done and save, or exit(1)
CmdDoneFinish(p) ==
    /\ pc[p] = "cmd_done_finish"
    /\ LET i == FindTodo(todos[p], args[p].id)
       IN  IF i # 0
           THEN /\ todosFile' = save_todos([todos[p] EXCEPT ![i].done = TRUE])
                /\ Did(p, "save", "todos")
                /\ SavedTodos(p)
                /\ Exit(p, 0, <<Line("Marked as done.", args[p].id, "", "")>>)
           ELSE /\ Exit(p, 1, <<>>)
                /\ UNCHANGED <<todosFile, io, stale>>
    /\ UNCHANGED <<catsFile, assigned, rt>>

\* cmd_remove: let mut todos = load_todos()
CmdRemoveLoad(p) ==
    /\ pc[p] = "cmd_remove"
    /\ Did(p, "load", "todos")
    /\ LET loaded == load_todos(todosFile)
       IN  IF loaded.ok
           THEN Goto(p, "cmd_remove_finish", loaded.val, <<>>, None)
           ELSE Exit(p, 1, <<>>)
    /\ UNCHANGED <<todosFile, catsFile, assigned, stale, rt>>

\* cmd_remove saving before it looks at the length
CmdRemoveFinish_SaveFirst(p) ==
    /\ pc[p] = "cmd_remove_finish"
    /\ LET len == Len(todos[p])
           retained == Retain(todos[p], args[p].id)
       IN  /\ todosFile' = save_todos(retained)
           /\ Did(p, "save", "todos")
           /\ SavedTodos(p)
           /\ IF Len(retained) = len
              THEN Exit(p, 1, <<>>) /\ UNCHANGED assigned
              ELSE /\ assigned' = [assigned EXCEPT !.removed = TRUE]
                   /\ Exit(p, 0, <<Line("Removed.", args[p].id, "", "")>>)
    /\ UNCHANGED <<catsFile, rt>>

\* cmd_remove: retain; exit(1) when nothing was removed, else save
CmdRemoveFinish(p) ==
    /\ pc[p] = "cmd_remove_finish"
    /\ LET len == Len(todos[p])
           retained == Retain(todos[p], args[p].id)
       IN  IF Len(retained) = len
           THEN /\ Exit(p, 1, <<>>)
                /\ UNCHANGED <<todosFile, io, stale, assigned>>
           ELSE /\ todosFile' = save_todos(retained)
                /\ Did(p, "save", "todos")
                /\ SavedTodos(p)
                /\ assigned' = [assigned EXCEPT !.removed = TRUE]
                /\ Exit(p, 0, <<Line("Removed.", args[p].id, "", "")>>)
    /\ UNCHANGED <<catsFile, rt>>

\* cmd_category_add: the built-in check, then let mut cats = load_custom_categories()
CmdCategoryAddLoad(p) ==
    /\ pc[p] = "cmd_category_add"
    /\ LET lower == to_lowercase(args[p].cat.val)
           loaded == load_custom_categories(catsFile)
       IN  IF lower \in Range(BUILTIN_CATEGORIES)
           THEN Exit(p, 1, <<>>) /\ UNCHANGED io
           ELSE /\ Did(p, "load", "categories")
                /\ IF loaded.ok
                   THEN Goto(p, "cmd_category_add_finish", <<>>, loaded.val, None)
                   ELSE Exit(p, 1, <<>>)
    /\ UNCHANGED <<todosFile, catsFile, assigned, stale, rt>>

\* cmd_category_add comparing the names as written
CmdCategoryAddFinish_CaseSensitive(p) ==
    /\ pc[p] = "cmd_category_add_finish"
    /\ LET name == args[p].cat.val
       IN  IF \E i \in 1..Len(cats[p]) : cats[p][i] = name
           THEN /\ Exit(p, 1, <<>>)
                /\ UNCHANGED <<catsFile, io>>
           ELSE /\ catsFile' = save_custom_categories(Append(cats[p], name))
                /\ Did(p, "save", "categories")
                /\ Exit(p, 0, <<Line("Added category", 0, name, "")>>)
    /\ UNCHANGED <<todosFile, assigned, stale, rt>>

\* cmd_category_add: exit(1) on a duplicate, else push and save
CmdCategoryAddFinish(p) ==
    /\ pc[p] = "cmd_category_add_finish"
    /\ LET name == args[p].cat.val
           lower == to_lowercase(name)
       IN  IF \E i \in 1..Len(cats[p]) : to_lowercase(cats[p][i]) = lower
           THEN /\ Exit(p, 1, <<>>)
                /\ UNCHANGED <<catsFile, io>>
           ELSE /\ catsFile' = save_custom_categories(Append(cats[p], name))
                /\ Did(p, "save", "categories")
                /\ Exit(p, 0, <<Line("Added category", 0, name, "")>>)
    /\ UNCHANGED <<todosFile, assigned, stale, rt>>

\* cmd_category_list
CmdCategoryList(p) ==
    /\ pc[p] = "cmd_category_list"
    /\ Did(p, "load", "categories")
    /\ LET loaded == load_custom_categories(catsFile)
       IN  IF loaded.ok THEN Exit(p, 0, CategoryLines(loaded.val)) ELSE Exit(p, 1, <<>>)
    /\ UNCHANGED <<todosFile, catsFile, assigned, stale, rt>>

-----------------------------------------------------------------------------
(* Specifications *)

\* one invocation at a time, each run to its exit
Invoke == \E a \in Commands : (\A q \in Procs : Stopped(q)) /\ Start(1, a)

\* invocations from several terminals, overlapping freely
InvokeConcurrently == \E p \in Procs : \E a \in ConcCommands : Start(p, a)

Next ==
    \/ Invoke
    \/ \E p \in Procs : MainAddCat(p)
    \/ \E p \in Procs : CmdAddLoad(p)
    \/ \E p \in Procs : CmdAddSave(p)
    \/ \E p \in Procs : CmdList(p)
    \/ \E p \in Procs : CmdDoneLoad(p)
    \/ \E p \in Procs : CmdDoneFinish(p)
    \/ \E p \in Procs : CmdRemoveLoad(p)
    \/ \E p \in Procs : CmdRemoveFinish(p)
    \/ \E p \in Procs : CmdCategoryAddLoad(p)
    \/ \E p \in Procs : CmdCategoryAddFinish(p)
    \/ \E p \in Procs : CmdCategoryList(p)

Spec == Init /\ [][Next]_vars

NextConc ==
    \/ InvokeConcurrently
    \/ \E p \in Procs : CmdAddLoad(p)
    \/ \E p \in Procs : CmdAddSave(p)
    \/ \E p \in Procs : CmdDoneLoad(p)
    \/ \E p \in Procs : CmdDoneFinish(p)

SpecConc == Init /\ [][NextConc]_vars


\* the category commands on their own, one invocation at a time
InvokeCategory == \E a \in CategoryCommands : (\A q \in Procs : Stopped(q)) /\ Start(1, a)

NextCat ==
    \/ InvokeCategory
    \/ \E p \in Procs : CmdCategoryAddLoad(p)
    \/ \E p \in Procs : CmdCategoryAddFinish(p)
    \/ \E p \in Procs : CmdCategoryList(p)

SpecCat == Init /\ [][NextCat]_vars

-----------------------------------------------------------------------------
(* save_json followed by load_json, on any collection *)

\* sequences over S of length at most n
RECURSIVE SeqsUpTo(_, _)
SeqsUpTo(S, n) ==
    IF n = 0 THEN {<<>>}
    ELSE LET shorter == SeqsUpTo(S, n - 1)
         IN  shorter \cup {Append(q, x) : q \in shorter, x \in S}

\* the Category values of the harness: built-ins, a custom name, and a custom
\* name that spells a built-in
RtCategories == {None, Some(Work), Some(Health), Some(Custom("Errands")), Some(Custom("work"))}

RtTodos == {Todo(i, t, d, c) : i \in {1, 2}, t \in Texts, d \in BOOLEAN, c \in RtCategories}

RtStrings == {"Errands", "work", ""}

RtIn(kind, ts, cs) ==
    [kind |-> kind, todos |-> ts, cats |-> cs, gotTodos |-> NotLoaded, gotCats |-> NotLoaded]

InitRT ==
    /\ Boot
    /\ rt \in {RtIn("todos", ts, <<>>) : ts \in SeqsUpTo(RtTodos, MaxLen)}
             \cup {RtIn("categories", <<>>, cs) : cs \in SeqsUpTo(RtStrings, MaxLen)}

RtFrame == UNCHANGED <<pc, args, todos, cats, category, exitCode, stdout, io, assigned, stale>>

\* save_todos(&rt.todos)
RtSaveTodos ==
    /\ rt.kind = "todos"
    /\ ~todosFile.exists
    /\ todosFile' = save_todos(rt.todos)
    /\ rt' = [rt EXCEPT !.gotTodos = NotLoaded]
    /\ UNCHANGED catsFile
    /\ RtFrame

\* load_todos()
RtLoadTodos ==
    /\ rt.kind = "todos"
    /\ rt.gotTodos = NotLoaded
    /\ rt' = [rt EXCEPT !.gotTodos = load_todos(todosFile)]
    /\ UNCHANGED <<todosFile, catsFile>>
    /\ RtFrame

\* save_custom_categories(&rt.cats)
RtSaveCats ==
    /\ rt.kind = "categories"
    /\ ~catsFile.exists
    /\ catsFile' = save_custom_categories(rt.cats)
    /\ rt' = [rt EXCEPT !.gotCats = NotLoaded]
    /\ UNCHANGED todosFile
    /\ RtFrame

\* load_custom_categories()
RtLoadCats ==
    /\ rt.kind = "categories"
    /\ rt.gotCats = NotLoaded
    /\ rt' = [rt EXCEPT !.gotCats = load_custom_categories(catsFile)]
    /\ UNCHANGED <<todosFile, catsFile>>
    /\ RtFrame

NextRT == RtSaveTodos \/ RtLoadTodos \/ RtSaveCats \/ RtLoadCats

SpecRT == InitRT /\ [][NextRT]_vars

-----------------------------------------------------------------------------
(* What the properties below read off a state *)

\* the collections as a fresh process would load them
StoredTodos == load_todos(todosFile).val
StoredCats == load_custom_categories(catsFile).val

IdsOf(ts) == {ts[i].id : i \in 1..Len(ts)}

IsPrefix(s, t) == Len(s) <= Len(t) /\ SubSeq(t, 1, Len(s)) = s

\* process p takes the step that ends its invocation
Finishes(p) == ~Stopped(p) /\ pc'[p] = "exited"

\* process p takes the saving step of cmd_add
AddSaves(p) == pc[p] = "cmd_add_save" /\ pc'[p] = "exited"

\* the accesses of one kind in a log of file accesses
Accesses(log, what, which) == {k \in 1..Len(log) : log[k] = <<what, which>>}
Saves(log) == {k \in 1..Len(log) : log[k][1] = "save"}
Loads(log) == {k \in 1..Len(log) : log[k][1] = "load"}

-----------------------------------------------------------------------------
(* C1 *)

UniqueIds(ts) == \A i, j \in 1..Len(ts) : i # j => ts[i].id # ts[j].id

RemoveDeletesOne ==
    \A p \in Procs :
        (pc[p] = "cmd_remove_finish" /\ pc'[p] = "exited" /\ exitCode'[p] = 0)
        => /\ Len(load_todos(todosFile').val) = Len(StoredTodos) - 1
           /\ IdsOf(load_todos(todosFile').val) = IdsOf(StoredTodos) \ {args[p].id}

\* C1: from empty storage, after any sequence of commands, the stored todos
\* load and no two of them carry the same identifier; a remove that succeeds
\* deletes exactly one record, the one with the identifier given.
C1_UniqueIds ==
    /\ [](load_todos(todosFile).ok /\ UniqueIds(StoredTodos))
    /\ [][RemoveDeletesOne]_vars

\* a remove has succeeded and left two of three todos
C1_Witness ==
    /\ pc[1] = "exited" /\ exitCode[1] = 0
    /\ stdout[1] = <<Line("Removed.", 1, "", "")>>
    /\ IdsOf(StoredTodos) = {2, 3}

-----------------------------------------------------------------------------
(* C2 *)

AddAppends ==
    \A p \in Procs :
        AddSaves(p) =>
            LET old == StoredTodos
                new == load_todos(todosFile').val
                n == Len(new)
            IN  /\ n = Len(old) + 1
                /\ SubSeq(new, 1, Len(old)) = old
                /\ new[n].id = IF old = <<>> THEN 1 ELSE Max(IdsOf(old)) + 1
                /\ new[n].done = FALSE
                /\ new[n].text = args[p].text
                /\ new[n].category = category[p]

\* C2: add gives the new record the identifier (stored maximum) + 1, or 1 on an
\* empty collection, appends it at the end with done = false and leaves the
\* records before it as they were; so as long as nothing was removed the
\* stored identifiers are 1..N in order.
C2_AddAssignsNext ==
    /\ [](~assigned.removed => \A i \in 1..Len(StoredTodos) : StoredTodos[i].id = i)
    /\ [][AddAppends]_vars

\* three adds in a row on empty storage
C2_Witness ==
    /\ ~assigned.removed
    /\ Len(StoredTodos) = 3
    /\ stdout[1] = <<Line("Added todo", 3, "", "buy milk")>>

-----------------------------------------------------------------------------
(* C3 *)

\* the identifier the add of process p has just printed
AddedId(p) == stdout'[p][1].id

-----------------------------------------------------------------------------
(* C4 *)

InDoneOrRemove(p) ==
    pc[p] \in {"cmd_done", "cmd_done_finish", "cmd_remove", "cmd_remove_finish"}

NotFoundLeavesFiles ==
    \A p \in Procs :
        (InDoneOrRemove(p) /\ args[p].id \notin IdsOf(StoredTodos) /\ pc'[p] # pc[p])
        => /\ todosFile' = todosFile
           /\ catsFile' = catsFile
           /\ pc[p] \in {"cmd_done_finish", "cmd_remove_finish"}
                => /\ pc'[p] = "exited"
                   /\ exitCode'[p] # 0
                   /\ Saves(io'[p]) = {}

\* C4: done(id) and remove(id) with an identifier no stored record carries
\* save nothing, leave both files exactly as they were and exit nonzero.
C4_NotFoundNoWrite == [][NotFoundLeavesFiles]_vars

\* a done or remove has failed on a non-empty collection
C4_Witness ==
    /\ pc[1] = "exited" /\ exitCode[1] = 1
    /\ io[1] = <<(<<"load", "todos">>)>>
    /\ Len(StoredTodos) >= 2

-----------------------------------------------------------------------------
(* C5 *)

RegistryOk(cs) ==
    /\ \A i \in 1..Len(cs) : to_lowercase(cs[i]) \notin Range(BUILTIN_CATEGORIES)
    /\ \A i, j \in 1..Len(cs) : i # j => to_lowercase(cs[i]) # to_lowercase(cs[j])

CategoryAddOutcome ==
    \A p \in Procs :
        (args[p].cmd = "category add" /\ Finishes(p)) =>
            LET name == args[p].cat.val
                lower == to_lowercase(name)
                reg == StoredCats
            IN  IF \/ lower \in Range(BUILTIN_CATEGORIES)
                   \/ \E i \in 1..Len(reg) : to_lowercase(reg[i]) = lower
                THEN /\ exitCode'[p] = 1
                     /\ catsFile' = catsFile
                     /\ Saves(io'[p]) = {}
                ELSE /\ exitCode'[p] = 0
                     /\ load_custom_categories(catsFile').val = Append(reg, name)

\* C5: no registered name equals a built-in or another registered name, case
\* aside; category add of such a name exits 1 and writes nothing, any other
\* name is appended as given; the registry never shrinks or reorders.
C5_RegistryInvariant ==
    /\ [](load_custom_categories(catsFile).ok /\ RegistryOk(StoredCats))
    /\ [][CategoryAddOutcome]_vars
    /\ [][IsPrefix(StoredCats, load_custom_categories(catsFile').val)]_vars

\* a second spelling of a registered name has just been rejected
C5_Witness ==
    /\ StoredCats = <<"Misc", "Errands">>
    /\ pc[1] = "exited" /\ exitCode[1] = 1
    /\ io[1] = <<(<<"load", "categories">>)>>

-----------------------------------------------------------------------------
(* C6 *)

ParseOutcome ==
    \A p \in Procs :
        (pc[p] = "main_add_cat" /\ pc'[p] # pc[p]) =>
            LET name == args[p].cat.val
                lower == to_lowercase(name)
                reg == StoredCats
                hits == {i \in 1..Len(reg) : to_lowercase(reg[i]) = lower}
            IN  IF lower \in Range(BUILTIN_CATEGORIES)
                THEN /\ pc'[p] = "cmd_add"
                     /\ category'[p].some
                     /\ category'[p].val.tag # "Custom"
                     /\ Display(category'[p].val) = lower
                ELSE IF hits # {}
                THEN /\ pc'[p] = "cmd_add"
                     /\ \E i \in hits : category'[p] = Some(Custom(reg[i]))
                ELSE /\ pc'[p] = "exited"
                     /\ exitCode'[p] = 1
                     /\ todosFile' = todosFile
                     /\ io'[p] = <<(<<"load", "categories">>)>>

\* every custom category of a stored todo is spelled as the registry spells it
StoredSpelling ==
    \A i \in 1..Len(StoredTodos) :
        LET c == StoredTodos[i].category
        IN  (c.some /\ c.val.tag = "Custom") => c.val.name \in Range(StoredCats)

\* every category a list has printed is a built-in or spelled as the registry spells it
ListedSpelling ==
    \A p \in Procs : \A k \in 1..Len(stdout[p]) :
        stdout[p][k].what \in {"[x]", "[ ]", "Added todo"}
        => stdout[p][k].label \in {""} \cup Range(BUILTIN_CATEGORIES) \cup Range(StoredCats)

\* C6: parse_category gives the built-in for a name that is a built-in case
\* aside, else the registered entry in its stored spelling, else fails, and then
\* add exits 1 and writes no todo; the stored and the listed category of a todo
\* carry the registry's spelling, not the input's.
C6_ParsePreservesCasing ==
    /\ [](StoredSpelling /\ ListedSpelling)
    /\ [][ParseOutcome]_vars
    /\ [][\A p \in Procs : (AddSaves(p) /\ category[p].some) =>
            /\ stdout'[p][1].label = Display(category[p].val)
            /\ load_todos(todosFile').val[Len(StoredTodos) + 1].category = category[p]]_vars

\* `add --cat errands` after `category add Errands`: parsed to Custom("Errands")
C6_Witness ==
    /\ pc[1] = "cmd_add"
    /\ args[1].cat = Some("errands")
    /\ StoredCats = <<"Errands">>
    /\ category[1] = Some(Custom("Errands"))

-----------------------------------------------------------------------------
(* C7 *)

\* C7: what is loaded right after a save equals what was saved, record for
\* record and in order, for the todos and for the custom categories; what is
\* loaded from a path that does not exist is the empty collection.
C7_RoundTrip ==
    /\ rt.gotTodos # NotLoaded =>
          rt.gotTodos = Ok(IF todosFile.exists THEN rt.todos ELSE <<>>)
    /\ rt.gotCats # NotLoaded =>
          rt.gotCats = Ok(IF catsFile.exists THEN rt.cats ELSE <<>>)

\* three records, one with a built-in, one with a custom and one without
\* category, saved and loaded back
C7_Witness ==
    /\ todosFile.exists
    /\ rt.gotTodos # NotLoaded
    /\ Len(rt.todos) = 3
    /\ rt.todos[1].category = Some(Work)
    /\ rt.todos[2].category = Some(Custom("Errands"))
    /\ rt.todos[3].category = None

-----------------------------------------------------------------------------
(* C8 *)

Card(S) == Cardinality(S)

Mutating == {"add", "done", "remove", "category add"}

-----------------------------------------------------------------------------
(* C9 *)

LostUpdate ==
    \A p \in Procs :
        (HoldsTodos(p) /\ stale[p] /\ pc'[p] = "exited") =>
            LET mine == todos[p]
                theirs == StoredTodos
                new == load_todos(todosFile').val
            IN  /\ pc[p] = "cmd_add_save" =>
                    /\ exitCode'[p] = 0
                    /\ Len(new) = Len(mine) + 1
                    /\ SubSeq(new, 1, Len(mine)) = mine
                    /\ new[Len(new)].id = IF mine = <<>> THEN 1 ELSE Max(IdsOf(mine)) + 1
                    \* the other process added to the same collection: same identifier,
                    \* and one new todo in the file, not two
                    /\ (Len(theirs) = Len(mine) + 1 /\ SubSeq(theirs, 1, Len(mine)) = mine)
                          => /\ AddedId(p) = theirs[Len(theirs)].id
                             /\ Len(new) = Len(theirs)
                /\ (pc[p] = "cmd_done_finish" /\ exitCode'[p] = 0) =>
                    /\ Len(new) = Len(mine)
                    /\ \A i \in 1..Len(mine) :
                          new[i] = IF mine[i].id = args[p].id
                                   THEN [mine[i] EXCEPT !.done = TRUE] ELSE mine[i]

\* C9: a process that saves the todos after another process has saved them
\* since its own load overwrites the file with its own collection: what the
\* other saved in between is gone, and both exit 0.
C9_LastWriterWins == [][LostUpdate]_vars

\* two adds on empty storage have both printed "Added todo #1" and exited 0,
\* and the file holds one record
C9_Witness ==
    /\ pc[1] = "exited" /\ pc[2] = "exited"
    /\ exitCode[1] = 0 /\ exitCode[2] = 0
    /\ stale[2] /\ ~stale[1]
    /\ stdout[1] = <<Line("Added todo", 1, "", "buy milk")>>
    /\ stdout[2] = <<Line("Added todo", 1, "", "buy milk")>>
    /\ Len(StoredTodos) = 1

-----------------------------------------------------------------------------
(* C10 *)

Member(obj, name) == name \in DOMAIN obj.f

\* C10 as claimed: the category of a stored record is a plain string, the
\* lowercase built-in name or the custom name itself, and is absent for None.
C10_PlainString ==
    todosFile.exists =>
        \A i \in 1..Len(rt.todos) :
            LET c == rt.todos[i].category
                obj == todosFile.data.a[i]
            IN  IF c.some
                THEN Member(obj, "category") /\ obj.f.category = JStr(Display(c.val))
                ELSE ~Member(obj, "category")

\* C10 amended: the category of a stored record is the lowercase built-in name
\* as a plain string for a built-in, an object with the one member "custom"
\* holding the custom name for a custom category, and is absent for None.
C10_TaggedCustom ==
    todosFile.exists =>
        \A i \in 1..Len(rt.todos) :
            LET c == rt.todos[i].category
                obj == todosFile.data.a[i]
            IN  IF ~c.some THEN ~Member(obj, "category")
                ELSE /\ Member(obj, "category")
                     /\ obj.f.category =
                           IF c.val.tag = "Custom"
                           THEN JObj([custom |-> JStr(c.val.name)])
                           ELSE JStr(Display(c.val))

\* a saved file with a custom, a built-in and an absent category
C10_Witness ==
    /\ todosFile.exists
    /\ Len(rt.todos) = 3
    /\ rt.todos[1].category = Some(Custom("Errands"))
    /\ rt.todos[2].category = Some(Health)
    /\ rt.todos[3].category = None

=============================================================================
